---- MODULE Spec2Model ----
(***************************************************************************)
(* Model of src/models.py: the fixed-step forward Euler integrator         *)
(* (EulerIntegrator.solve), the model base class (ODEModel.simulate) and   *)
(* the three concrete models (SIRModel, LotkaVolterraCompetitor,           *)
(* ZombieModel).                                                           *)
(*                                                                         *)
(* Every number of the program is a Python float, i.e. an IEEE-754         *)
(* binary64 value.  The loop of solve exits on a comparison of accumulated *)
(* floats, so the arithmetic is modelled as the interpreter performs it:   *)
(* each +, -, *, / is the exact result rounded to a 53-bit significand,    *)
(* round-half-to-even.  Significands are natural numbers of more than 31   *)
(* bits, held as little-endian sequences of limbs.  Infinities, NaN,       *)
(* subnormals and the sign of zero are not modelled (no value of the       *)
(* model leaves the normal range, and -0.0 == 0.0 in Python).              *)
(***************************************************************************)
EXTENDS Integers, Sequences, FiniteSets, TLC

(***************************************************************************)
(* Natural numbers of arbitrary size: little-endian limbs, no zero limb at *)
(* the top; zero is the empty sequence.                                    *)
(***************************************************************************)
LimbBits == 12
Base == 2 ^ LimbBits

RECURSIVE NatNorm(_)
NatNorm(a) ==
    IF a = <<>> THEN <<>>
    ELSE IF a[Len(a)] = 0 THEN NatNorm(SubSeq(a, 1, Len(a) - 1))
    ELSE a

NatLimb(a, i) == IF i >= 1 /\ i <= Len(a) THEN a[i] ELSE 0

\* seq[i - 1] and seq[-1] of a Python list
Item(seq, i) == Head(SubSeq(seq, i, i))
Last(seq) == Item(seq, Len(seq))

RECURSIVE NatFromInt(_)
NatFromInt(n) == IF n = 0 THEN <<>> ELSE <<n % Base>> \o NatFromInt(n \div Base)

RECURSIVE CarryRec(_, _, _, _)
\* propagate carries through columns whose entries may exceed one limb
CarryRec(cols, i, c, acc) ==
    IF i > Len(cols)
    THEN (IF c = 0 THEN acc ELSE CarryRec(cols, i, c \div Base, Append(acc, c % Base)))
    ELSE LET s == cols[i] + c
         IN  CarryRec(cols, i + 1, s \div Base, Append(acc, s % Base))

NatMax(x, y) == IF x >= y THEN x ELSE y
NatMin(x, y) == IF x <= y THEN x ELSE y

NatAdd(a, b) ==
    NatNorm(CarryRec([i \in 1..NatMax(Len(a), Len(b)) |-> NatLimb(a, i) + NatLimb(b, i)],
                     1, 0, <<>>))

RECURSIVE BorrowRec(_, _, _, _, _)
BorrowRec(a, b, i, br, acc) ==
    IF i > Len(a) THEN acc
    ELSE LET d == NatLimb(a, i) - NatLimb(b, i) - br
         IN  IF d < 0 THEN BorrowRec(a, b, i + 1, 1, Append(acc, d + Base))
             ELSE BorrowRec(a, b, i + 1, 0, Append(acc, d))

\* a - b, for a >= b
NatSub(a, b) == NatNorm(BorrowRec(a, b, 1, 0, <<>>))

RECURSIVE NatCmpRec(_, _, _)
NatCmpRec(a, b, i) ==
    IF i = 0 THEN 0
    ELSE IF NatLimb(a, i) < NatLimb(b, i) THEN -1
    ELSE IF NatLimb(a, i) > NatLimb(b, i) THEN 1
    ELSE NatCmpRec(a, b, i - 1)

\* -1, 0, 1 as a < b, a = b, a > b
NatCmp(a, b) ==
    IF Len(a) < Len(b) THEN -1
    ELSE IF Len(a) > Len(b) THEN 1
    ELSE NatCmpRec(a, b, Len(a))

RECURSIVE IntBitLen(_)
IntBitLen(n) == IF n = 0 THEN 0 ELSE 1 + IntBitLen(n \div 2)

NatBitLen(a) == IF a = <<>> THEN 0 ELSE LimbBits * (Len(a) - 1) + IntBitLen(a[Len(a)])

\* a * 2^k
NatShl(a, k) ==
    IF a = <<>> THEN <<>>
    ELSE LET q == k \div LimbBits
             r == k % LimbBits
             f == 2 ^ r
             hi == [i \in 1..(Len(a) + 1) |->
                      ((NatLimb(a, i) * f) % Base) + ((NatLimb(a, i - 1) * f) \div Base)]
         IN  NatNorm([i \in 1..q |-> 0] \o hi)

\* floor(a / 2^k)
NatShr(a, k) ==
    LET q == k \div LimbBits
        r == k % LimbBits
        f == 2 ^ r
        g == 2 ^ (LimbBits - r)
    IN  IF q >= Len(a) THEN <<>>
        ELSE NatNorm([i \in 1..(Len(a) - q) |->
                        (NatLimb(a, i + q) \div f) + ((NatLimb(a, i + q + 1) % f) * g)])

\* bit i of a, bit 0 the lowest
NatBit(a, i) == (NatLimb(a, (i \div LimbBits) + 1) \div (2 ^ (i % LimbBits))) % 2

\* a mod 2^k # 0
NatLowNonzero(a, k) ==
    LET q == k \div LimbBits
        r == k % LimbBits
    IN  \/ \E i \in 1..NatMin(q, Len(a)) : a[i] # 0
        \/ NatLimb(a, q + 1) % (2 ^ r) # 0

RECURSIVE ColSum(_, _, _, _)
ColSum(a, b, k, i) ==
    IF i > Len(a) THEN 0
    ELSE (NatLimb(a, i) * NatLimb(b, k + 1 - i)) + ColSum(a, b, k, i + 1)

NatMul(a, b) ==
    IF a = <<>> \/ b = <<>> THEN <<>>
    ELSE NatNorm(CarryRec([k \in 1..(Len(a) + Len(b)) |-> ColSum(a, b, k, 1)], 1, 0, <<>>))

RECURSIVE DivLimbs(_, _, _)
\* long division: the next n limbs of rem / d, highest first, followed by 1
\* if a remainder is left and 0 if not; rem < d, and the top limb of d is at
\* least Base / 2, so that the estimate from the top limbs is at most 2 too big
DivLimbs(rem, d, n) ==
    IF n = 0 THEN <<IF rem = <<>> THEN 0 ELSE 1>>
    ELSE LET r == NatShl(rem, LimbBits)
             top == Len(d)
             est == NatMin(Base - 1,
                           ((NatLimb(r, top + 1) * Base) + NatLimb(r, top)) \div NatLimb(d, top))
             q == CHOOSE c \in (est - 2)..est :
                      /\ c >= 0
                      /\ NatCmp(NatMul(d, NatFromInt(c)), r) <= 0
                      /\ NatCmp(NatMul(d, NatFromInt(c + 1)), r) > 0
         IN  <<q>> \o DivLimbs(NatSub(r, NatMul(d, NatFromInt(q))), d, n - 1)

(***************************************************************************)
(* Python floats (binary64).  A float is [sgn, man, exp] with value        *)
(* sgn * man * 2^exp; zero is [0, <<>>, 0]; otherwise man has exactly      *)
(* Precision bits, so equal floats are equal records.                      *)
(***************************************************************************)
Precision == 53

FZero == [sgn |-> 0, man |-> <<>>, exp |-> 0]

\* the float nearest to s * m * 2^e (m a natural), ties to even
FRound(s, m, e) ==
    LET len == NatBitLen(m)
    IN  IF len = 0 \/ s = 0 THEN FZero
        ELSE IF len <= Precision
        THEN [sgn |-> s, man |-> NatShl(m, Precision - len), exp |-> e - (Precision - len)]
        ELSE LET k == len - Precision
                 q == NatShr(m, k)
                 up == /\ NatBit(m, k - 1) = 1
                       /\ (NatLowNonzero(m, k - 1) \/ NatBit(q, 0) = 1)
                 q1 == IF up THEN NatAdd(q, <<1>>) ELSE q
             IN  IF NatBitLen(q1) > Precision
                 THEN [sgn |-> s, man |-> NatShr(q1, 1), exp |-> e + k + 1]
                 ELSE [sgn |-> s, man |-> q1, exp |-> e + k]

\* the exact sum of two floats: sgn * man * 2^exp, man of any length
ExactSum(a, b) ==
    LET e == NatMin(a.exp, b.exp)
        ma == NatShl(a.man, a.exp - e)
        mb == NatShl(b.man, b.exp - e)
        c == NatCmp(ma, mb)
    IN  IF a.sgn = 0 THEN b
        ELSE IF b.sgn = 0 THEN a
        ELSE IF a.sgn = b.sgn THEN [sgn |-> a.sgn, man |-> NatAdd(ma, mb), exp |-> e]
        ELSE IF c = 0 THEN FZero
        ELSE IF c > 0 THEN [sgn |-> a.sgn, man |-> NatSub(ma, mb), exp |-> e]
        ELSE [sgn |-> b.sgn, man |-> NatSub(mb, ma), exp |-> e]

FAdd(a, b) == LET x == ExactSum(a, b) IN FRound(x.sgn, x.man, x.exp)

FNeg(a) == [a EXCEPT !.sgn = -a.sgn]

FSub(a, b) == FAdd(a, FNeg(b))

FMul(a, b) == FRound(a.sgn * b.sgn, NatMul(a.man, b.man), a.exp + b.exp)

\* the quotient limbs computed by a division
DivDigits == ((Precision + 2) \div LimbBits) + 1

\* a / b for b # 0: the quotient to DivDigits limbs, a bit telling whether it is
\* inexact appended, then rounded
FDiv(a, b) ==
    IF a.sgn = 0 THEN FZero
    ELSE LET sh == (LimbBits * Len(b.man)) - NatBitLen(b.man)
             d == NatShl(b.man, sh)
             n0 == NatShl(a.man, sh)
             first == NatCmp(n0, d) >= 0
             digs == DivLimbs(IF first THEN NatSub(n0, d) ELSE n0, d, DivDigits)
             quot == NatNorm([i \in 1..(DivDigits + 1) |->
                                IF i = DivDigits + 1 THEN (IF first THEN 1 ELSE 0)
                                ELSE Item(digs, DivDigits + 1 - i)])
             m == NatAdd(NatShl(quot, 1), IF Last(digs) = 1 THEN <<1>> ELSE <<>>)
         IN  FRound(a.sgn * b.sgn, m, a.exp - b.exp - (DivDigits * LimbBits) - 1)

\* a < b
FLt(a, b) ==
    LET mag == IF a.exp # b.exp THEN (IF a.exp < b.exp THEN -1 ELSE 1)
               ELSE NatCmp(a.man, b.man)
    IN  IF a.sgn # b.sgn THEN a.sgn < b.sgn
        ELSE IF a.sgn = 0 THEN FALSE
        ELSE IF a.sgn = 1 THEN mag < 0
        ELSE mag > 0

FLe(a, b) == ~FLt(b, a)

\* the float of an integer literal
FInt(n) == IF n < 0 THEN FRound(-1, NatFromInt(-n), 0) ELSE FRound(1, NatFromInt(n), 0)

\* the float of the decimal literal n/d
FDec(n, d) == FDiv(FInt(n), FInt(d))

\* the addition a + b is exact (no bit is rounded away)
IsExactAdd(a, b) ==
    LET x == ExactSum(a, b)
        len == NatBitLen(x.man)
    IN  len <= Precision \/ ~NatLowNonzero(x.man, len - Precision)

(***************************************************************************)
(* The program state.                                                      *)
(***************************************************************************)
VARIABLES
    pc,          \* "new": nothing constructed; "ready": constructed, no call yet;
                 \* "loop": inside the while loop of solve; "done": solve has
                 \* returned (times, states); "raised": derivs raised out of solve
    integrator,  \* the EulerIntegrator object: [dt]
    model,       \* the model object owning the integrator (its dataclass fields), or NoModel
    derivs,      \* solve's argument derivs: the name of the callable
    y0,          \* the caller's list passed as y0
    t0,          \* solve's argument t0
    t_end,       \* solve's argument t_end
    t,           \* solve's local t
    y,           \* solve's local y
    times,       \* solve's local times
    states,      \* solve's local states
    derivCalls,  \* how often the running solve has called derivs
    first        \* arguments and result of the first call that returned on this
                 \* object, and whether a later call with the same arguments returned

vars == <<pc, integrator, model, derivs, y0, t0, t_end, t, y, times, states, derivCalls, first>>

frame == <<derivs, y0, t0, t_end, t, y, times, states, derivCalls>>

NoModel == [kind |-> "none"]
NoCall == [args |-> <<>>, result |-> <<>>, repeated |-> FALSE]

\* the iterations of the while loop that are explored
MaxSteps == 12

(***************************************************************************)
(* The float literals used as inputs.                                      *)
(***************************************************************************)
F0 == FZero
F1 == FInt(1)
F01 == FDec(1, 10)
F05 == FDec(5, 10)
FBig == FRound(1, <<1>>, Precision)           \* 2.0 ** 53
FBig2 == FAdd(FBig, FInt(2))                  \* 2.0 ** 53 + 2

FAbs(a) == [a EXCEPT !.sgn = a.sgn * a.sgn]


(***************************************************************************)
(* The derivative functions.                                               *)
(***************************************************************************)
\* SIRModel.derivatives with dr = self.gamma * r in place of self.gamma * i
SIRDerivativesRecoveredTypo(m, st, tm) ==
    LET s == Item(st, 1)
        i == Item(st, 2)
        r == Item(st, 3)
        ds == FDiv(FMul(FMul(FNeg(m.beta), s), i), m.N)
        di == FSub(FDiv(FMul(FMul(m.beta, s), i), m.N), FMul(m.gamma, i))
        dr == FMul(m.gamma, r)
    IN  <<ds, di, dr>>

\* SIRModel.derivatives; raises ZeroDivisionError when self.N == 0
SIRDerivatives(m, st, tm) ==
    LET s == Item(st, 1)
        i == Item(st, 2)
        ds == FDiv(FMul(FMul(FNeg(m.beta), s), i), m.N)
        di == FSub(FDiv(FMul(FMul(m.beta, s), i), m.N), FMul(m.gamma, i))
        dr == FMul(m.gamma, i)
    IN  <<ds, di, dr>>

\* LotkaVolterraCompetitor.derivatives with the growth term comp_rate * prey,
\* the factor comp left out
LVDerivativesImmigration(m, st, tm) ==
    LET prey == Item(st, 1)
        pred == Item(st, 2)
        comp == Item(st, 3)
        dprey == FSub(FMul(m.alpha, prey), FMul(FMul(m.beta, prey), FAdd(pred, comp)))
        dpred == FSub(FMul(FMul(m.delta, prey), pred), FMul(m.gamma, pred))
        dcomp == FSub(FMul(m.comp_rate, prey), FMul(m.gamma, comp))
    IN  <<dprey, dpred, dcomp>>

\* LotkaVolterraCompetitor.derivatives
LVDerivatives(m, st, tm) ==
    LET prey == Item(st, 1)
        pred == Item(st, 2)
        comp == Item(st, 3)
        dprey == FSub(FMul(m.alpha, prey), FMul(FMul(m.beta, prey), FAdd(pred, comp)))
        dpred == FSub(FMul(FMul(m.delta, prey), pred), FMul(m.gamma, pred))
        dcomp == FSub(FMul(FMul(m.comp_rate, prey), comp), FMul(m.gamma, comp))
    IN  <<dprey, dpred, dcomp>>

\* ZombieModel.derivatives with the infection term beta * s, the factor z left out
ZombieDerivativesSpontaneous(m, st, tm) ==
    LET s == Item(st, 1)
        z == Item(st, 2)
        r == Item(st, 3)
        ds == FSub(FMul(FMul(FNeg(m.beta), s), z), FMul(FMul(m.alpha, s), z))
        dz == FSub(FAdd(FMul(m.beta, s), FMul(m.rho, r)), FMul(FMul(m.alpha, s), z))
        dr == FSub(FMul(FMul(m.alpha, s), z), FMul(m.rho, r))
    IN  <<ds, dz, dr>>

\* ZombieModel.derivatives
ZombieDerivatives(m, st, tm) ==
    LET s == Item(st, 1)
        z == Item(st, 2)
        r == Item(st, 3)
        ds == FSub(FMul(FMul(FNeg(m.beta), s), z), FMul(FMul(m.alpha, s), z))
        dz == FSub(FAdd(FMul(FMul(m.beta, s), z), FMul(m.rho, r)), FMul(FMul(m.alpha, s), z))
        dr == FSub(FMul(FMul(m.alpha, s), z), FMul(m.rho, r))
    IN  <<ds, dz, dr>>

\* the callables handed to EulerIntegrator.solve by a direct caller:
\*   zero    lambda y, t: [0.0] * len(y)
\*   negate  lambda y, t: [-yi for yi in y]
\*   switch  lambda y, t: [1.0 if t < 1.0 else 0.0] * len(y)
\*   short   lambda y, t: [1.0] * (len(y) - 1)
\*   long    lambda y, t: [0.0] * (len(y) + 1)
\* derivs(y, t)
Derivs(f, m, st, tm) ==
    CASE f = "SIRModel.derivatives" -> SIRDerivatives(m, st, tm)
      [] f = "LotkaVolterraCompetitor.derivatives" -> LVDerivatives(m, st, tm)
      [] f = "ZombieModel.derivatives" -> ZombieDerivatives(m, st, tm)
      [] f = "zero" -> [i \in 1..Len(st) |-> F0]
      [] f = "negate" -> [i \in 1..Len(st) |-> FNeg(Item(st, i))]
      [] f = "switch" -> [i \in 1..Len(st) |-> IF FLt(tm, F1) THEN F1 ELSE F0]
      [] f = "short" -> [i \in 1..(Len(st) - 1) |-> F1]
      [] f = "long" -> [i \in 1..(Len(st) + 1) |-> F0]

\* derivs(y, t) raises: the float division by self.N == 0 in SIRModel.derivatives
DerivsRaises(f, m, st, tm) == f = "SIRModel.derivatives" /\ m.N = F0

\* [yi + self.dt * dyi for yi, dyi in zip(y, dy)]: zip stops at the shorter list
EulerUpdate(dt, st, dy) ==
    [i \in 1..NatMin(Len(st), Len(dy)) |-> FAdd(Item(st, i), FMul(dt, Item(dy, i)))]

\* the loop body with derivs called after t += self.dt
StepStateLate(dt, f, m, st, tm) == EulerUpdate(dt, st, Derivs(f, m, st, FAdd(tm, dt)))

\* the loop body's new y: dy = derivs(y, t), then the update from the old y
StepState(dt, f, m, st, tm) == EulerUpdate(dt, st, Derivs(f, m, st, tm))

\* the loop condition written t <= t_end
LoopCondInclusive(tm, te) == FLe(tm, te)

\* the loop condition t < t_end
LoopCond(tm, te) == FLt(tm, te)

\* initial_state() of the three models
InitialState(m) ==
    CASE m.kind = "SIRModel" -> <<m.s0, m.i0, m.r0>>
      [] m.kind = "LotkaVolterraCompetitor" -> <<m.prey0, m.pred0, m.comp0>>
      [] m.kind = "ZombieModel" -> <<m.s0, m.z0, m.r0>>

\* the bound method self.derivatives
DerivativesOf(m) ==
    CASE m.kind = "SIRModel" -> "SIRModel.derivatives"
      [] m.kind = "LotkaVolterraCompetitor" -> "LotkaVolterraCompetitor.derivatives"
      [] m.kind = "ZombieModel" -> "ZombieModel.derivatives"

(***************************************************************************)
(* The inputs: constructor arguments and call arguments.                   *)
(***************************************************************************)
\* dt of a bare EulerIntegrator (0.1 is the default); the constructor takes any float
IntegratorSteps == {F01, F05, F1, F0, FNeg(F05)}

\* (derivs, y0, t0, t_end) of a direct call of solve
SolveArgs ==
    { [derivs |-> "zero",   y0 |-> <<F1, FInt(2)>>, t0 |-> F0,      t_end |-> F1],
      [derivs |-> "zero",   y0 |-> <<F1, FInt(2)>>, t0 |-> FInt(5), t_end |-> FInt(5)],
      [derivs |-> "negate", y0 |-> <<F1, FInt(2)>>, t0 |-> F0,      t_end |-> F1],
      [derivs |-> "negate", y0 |-> <<F1, FInt(2)>>, t0 |-> F1,      t_end |-> F0],
      [derivs |-> "switch", y0 |-> <<F0>>,          t0 |-> F0,      t_end |-> FDec(15, 10)],
      [derivs |-> "short",  y0 |-> <<F1, FInt(2)>>, t0 |-> F0,      t_end |-> F1],
      [derivs |-> "long",   y0 |-> <<F1, FInt(2)>>, t0 |-> F0,      t_end |-> F1],
      [derivs |-> "zero",   y0 |-> <<F1>>,          t0 |-> FBig,    t_end |-> FBig2] }

\* t_end of a call of simulate
SimulateEnds == {FNeg(F1), F0, FDec(3, 10), F1, FBig2}

SIRRates == { <<FDec(3, 10), F01>>, <<F05, FDec(25, 100)>> }
SIRCounts == { <<FInt(990), FInt(10), F0>>, <<FInt(3), F1, F0>>, <<F0, F0, F0>> }
SIRSteps == {F01, F0}

LVRates == { <<F1, F01, FDec(75, 1000), FDec(15, 10)>> }
LVCounts == { <<FInt(40), FInt(9)>> }
LVCompRates == {F0, FDec(5, 100)}
LVComp0s == {F0, FInt(5)}
LVSteps == {F01, F0}

ZombieRates == { <<FDec(2, 100), FDec(1, 100), FDec(5, 1000)>> }
ZombieCounts == { <<FInt(500), F1, F0>>, <<FInt(500), F0, F0>>,
                  <<F0, F0, F0>>, <<FInt(500), F0, FInt(3)>> }
ZombieSteps == {F01, FNeg(F05), FBig}

(***************************************************************************)
(* Init: nothing is constructed yet.                                       *)
(***************************************************************************)
Init ==
    /\ pc = "new"
    /\ integrator = [dt |-> F0]
    /\ model = NoModel
    /\ derivs = "none"
    /\ y0 = <<>>
    /\ t0 = F0
    /\ t_end = F0
    /\ t = F0
    /\ y = <<>>
    /\ times = <<>>
    /\ states = <<>>
    /\ derivCalls = 0
    /\ first = NoCall

(***************************************************************************)
(* Constructors.                                                           *)
(***************************************************************************)
\* EulerIntegrator.__init__: self.dt = dt, whatever dt is
EulerIntegratorInit(dt) == [dt |-> dt]

\* EulerIntegrator(dt)
NewIntegrator ==
    /\ pc = "new"
    /\ \E dt \in IntegratorSteps : integrator' = EulerIntegratorInit(dt)
    /\ model' = NoModel
    /\ pc' = "ready"
    /\ UNCHANGED <<frame, first>>

\* SIRModel(beta, gamma, s0, i0, r0, dt): the dataclass fields, then __post_init__
NewSIR ==
    /\ pc = "new"
    /\ \E rt \in SIRRates, c \in SIRCounts, dt \in SIRSteps :
          /\ integrator' = EulerIntegratorInit(dt)
          /\ model' = [kind |-> "SIRModel", beta |-> rt[1], gamma |-> rt[2],
                       s0 |-> c[1], i0 |-> c[2], r0 |-> c[3], dt |-> dt,
                       N |-> FAdd(FAdd(c[1], c[2]), c[3])]
    /\ pc' = "ready"
    /\ UNCHANGED <<frame, first>>

\* LotkaVolterraCompetitor(alpha, beta, delta, gamma, prey0, pred0, comp_rate, comp0, dt)
NewLV ==
    /\ pc = "new"
    /\ \E rt \in LVRates, c \in LVCounts, cr \in LVCompRates, c0 \in LVComp0s, dt \in LVSteps :
          /\ integrator' = EulerIntegratorInit(dt)
          /\ model' = [kind |-> "LotkaVolterraCompetitor", alpha |-> rt[1], beta |-> rt[2],
                       delta |-> rt[3], gamma |-> rt[4], prey0 |-> c[1], pred0 |-> c[2],
                       comp_rate |-> cr, comp0 |-> c0, dt |-> dt]
    /\ pc' = "ready"
    /\ UNCHANGED <<frame, first>>

\* ZombieModel(beta, alpha, rho, s0, z0, r0, dt)
NewZombie ==
    /\ pc = "new"
    /\ \E rt \in ZombieRates, c \in ZombieCounts, dt \in ZombieSteps :
          /\ integrator' = EulerIntegratorInit(dt)
          /\ model' = [kind |-> "ZombieModel", beta |-> rt[1], alpha |-> rt[2], rho |-> rt[3],
                       s0 |-> c[1], z0 |-> c[2], r0 |-> c[3], dt |-> dt]
    /\ pc' = "ready"
    /\ UNCHANGED <<frame, first>>

(***************************************************************************)
(* EulerIntegrator.solve.                                                  *)
(***************************************************************************)
\* lines 40-43: t = t0; y = y0[:]; times = [t]; states = [y[:]]
SolveEntry(f, init, start, end) ==
    /\ derivs' = f
    /\ y0' = init
    /\ t0' = start
    /\ t_end' = end
    /\ t' = start
    /\ y' = init
    /\ times' = <<start>>
    /\ states' = <<init>>
    /\ derivCalls' = 0
    /\ pc' = "loop"
    /\ UNCHANGED <<integrator, model, first>>

\* a caller calls integrator.solve(derivs, y0, t0, t_end) on a bare integrator
Solve ==
    /\ pc \in {"ready", "done", "raised"}
    /\ model = NoModel
    /\ \E a \in SolveArgs : SolveEntry(a.derivs, a.y0, a.t0, a.t_end)

\* ODEModel.simulate(t_end):
\* self.integrator.solve(self.derivatives, self.initial_state(), 0.0, t_end)
Simulate ==
    /\ pc \in {"ready", "done", "raised"}
    /\ model # NoModel
    /\ \E end \in SimulateEnds : SolveEntry(DerivativesOf(model), InitialState(model), F0, end)

\* the iteration without states.append(y[:])
StepNoSnapshot ==
    /\ pc = "loop"
    /\ LoopCond(t, t_end)
    /\ derivCalls < MaxSteps
    /\ ~DerivsRaises(derivs, model, y, t)
    /\ derivCalls' = derivCalls + 1
    /\ y' = StepState(integrator.dt, derivs, model, y, t)
    /\ t' = FAdd(t, integrator.dt)
    /\ times' = Append(times, t')
    /\ UNCHANGED <<pc, integrator, model, derivs, y0, t0, t_end, states, first>>

\* the iteration with times.append(t) before t += self.dt
StepStampsBefore ==
    /\ pc = "loop"
    /\ LoopCond(t, t_end)
    /\ derivCalls < MaxSteps
    /\ ~DerivsRaises(derivs, model, y, t)
    /\ derivCalls' = derivCalls + 1
    /\ y' = StepState(integrator.dt, derivs, model, y, t)
    /\ t' = FAdd(t, integrator.dt)
    /\ times' = Append(times, t)
    /\ states' = Append(states, y')
    /\ UNCHANGED <<pc, integrator, model, derivs, y0, t0, t_end, first>>

\* the iteration when y is the caller's list itself (y = y0) updated in place
StepInPlace ==
    /\ pc = "loop"
    /\ LoopCond(t, t_end)
    /\ derivCalls < MaxSteps
    /\ ~DerivsRaises(derivs, model, y, t)
    /\ derivCalls' = derivCalls + 1
    /\ y' = StepState(integrator.dt, derivs, model, y, t)
    /\ y0' = y'
    /\ t' = FAdd(t, integrator.dt)
    /\ times' = Append(times, t')
    /\ states' = Append(states, y')
    /\ UNCHANGED <<pc, integrator, model, derivs, t0, t_end, first>>

\* one iteration of the while loop, lines 44-49
Step ==
    /\ pc = "loop"
    /\ LoopCond(t, t_end)
    /\ derivCalls < MaxSteps
    /\ ~DerivsRaises(derivs, model, y, t)
    /\ derivCalls' = derivCalls + 1
    /\ y' = StepState(integrator.dt, derivs, model, y, t)
    /\ t' = FAdd(t, integrator.dt)
    /\ times' = Append(times, t')
    /\ states' = Append(states, y')
    /\ UNCHANGED <<pc, integrator, model, derivs, y0, t0, t_end, first>>

\* the iteration in which derivs raises: the exception leaves solve (and simulate)
StepRaises ==
    /\ pc = "loop"
    /\ LoopCond(t, t_end)
    /\ derivCalls < MaxSteps
    /\ DerivsRaises(derivs, model, y, t)
    /\ derivCalls' = derivCalls + 1
    /\ pc' = "raised"
    /\ UNCHANGED <<integrator, model, derivs, y0, t0, t_end, t, y, times, states, first>>

\* the loop condition fails: return times, states (line 50)
Return ==
    /\ pc = "loop"
    /\ ~LoopCond(t, t_end)
    /\ pc' = "done"
    /\ first' = IF first = NoCall
                THEN [args |-> <<derivs, y0, t0, t_end>>, result |-> <<times, states>>,
                      repeated |-> FALSE]
                ELSE IF first.args = <<derivs, y0, t0, t_end>>
                THEN [first EXCEPT !.repeated = TRUE]
                ELSE first
    /\ UNCHANGED <<integrator, model, frame>>

Next ==
    \/ NewIntegrator
    \/ NewSIR
    \/ NewLV
    \/ NewZombie
    \/ Solve
    \/ Simulate
    \/ Step
    \/ StepRaises
    \/ Return

Spec == Init /\ [][Next]_vars

(***************************************************************************)
(* Properties.                                                             *)
(***************************************************************************)
\* solve has set up its lists: it is in the loop, has returned, or derivs raised
Started == pc \in {"loop", "done", "raised"}

IsPrefix(a, b) == Len(a) <= Len(b) /\ a = SubSeq(b, 1, Len(a))

C1_Shape ==
    Started =>
        /\ Len(times) = Len(states)
        /\ Len(times) >= 1
        /\ times[1] = t0
        /\ states[1] = y0
        /\ (model # NoModel => t0 = F0 /\ y0 = InitialState(model))

\* C1: at every point of solve, and so in what solve and simulate return,
\* len(times) == len(states), times[0] == t0 (0.0 for simulate), states[0] is
\* the initial state passed in (initial_state() for simulate), and an
\* iteration of the loop appends exactly one entry to times and one to states.
C1_ParallelLists ==
    [][ /\ C1_Shape'
        /\ (pc = "loop" /\ pc' = "loop" =>
              /\ Len(times') = Len(times) + 1
              /\ Len(states') = Len(states) + 1
              /\ IsPrefix(times, times')
              /\ IsPrefix(states, states')) ]_vars

\* a simulate call has returned after at least two iterations
C1_Witness == pc = "done" /\ model # NoModel /\ Len(times) >= 3 /\ Len(states) >= 3

\* C2: in every result, times[k+1] == times[k] + dt and every component of
\* states[k+1] is states[k][i] + dt * derivs(states[k], times[k])[i]: the
\* derivative is taken at the state and time before the update; with the
\* zero derivative every recorded state equals the initial state.
C2_EulerStep ==
    pc = "done" =>
        /\ \A k \in 1..(Len(times) - 1) :
              LET dy == Derivs(derivs, model, states[k], times[k])
              IN  /\ times[k + 1] = FAdd(times[k], integrator.dt)
                  /\ (Len(dy) = Len(states[k]) => Len(states[k + 1]) = Len(states[k]))
                  /\ Len(states[k + 1]) <= Len(dy)
                  /\ \A i \in 1..Len(states[k + 1]) :
                        states[k + 1][i] = FAdd(states[k][i], FMul(integrator.dt, Item(dy, i)))
        /\ (derivs = "zero" => \A k \in 1..Len(states) : states[k] = y0)

\* a time-dependent derivative has changed its value during a finished run,
\* and a state-dependent one has moved the state
C2_Witness ==
    /\ pc = "done"
    /\ Len(times) >= 3
    /\ \/ derivs = "switch" /\ FLe(F1, times[Len(times) - 1])
       \/ derivs = "negate" /\ states[2] # states[1]

\* C3 as stated: for every t_end, simulate returns times with times[0] == 0,
\* times[-1] >= t_end and times[-1] < t_end + step_size.
C3_Original ==
    pc = "done" /\ model # NoModel =>
        /\ times[1] = F0
        /\ FLe(t_end, Last(times))
        /\ FLt(Last(times), FAdd(t_end, integrator.dt))

\* C3 amended: simulate returns times with times[0] == 0 and
\* times[-1] >= t_end; when t_end > 0 the last time is one step after a time
\* below t_end (times[-2] < t_end, times[-1] == times[-2] + step_size); when
\* t_end <= 0 no step is taken and times == [0.0].
C3_Overshoot ==
    pc = "done" /\ model # NoModel =>
        /\ times[1] = F0
        /\ FLe(t_end, Last(times))
        /\ IF FLt(F0, t_end)
           THEN /\ Len(times) >= 2
                /\ FLt(times[Len(times) - 1], t_end)
                /\ Last(times) = FAdd(times[Len(times) - 1], integrator.dt)
           ELSE times = <<F0>>

\* a simulate call over a positive t_end has returned with its last time
\* strictly past t_end
C3_Witness ==
    /\ pc = "done"
    /\ model # NoModel
    /\ FLt(F0, t_end)
    /\ FLt(t_end, Last(times))
    /\ Len(times) >= 3

\* n == math.ceil(x)
IsCeil(n, x) == FLe(x, FInt(n)) /\ FLt(FInt(n - 1), x)

\* (t_end - t0) / dt
StepQuotient == FDiv(FSub(t_end, t0), integrator.dt)

\* no addition t + dt of the run so far was rounded
AllExact == \A k \in 1..(Len(times) - 1) : IsExactAdd(times[k], integrator.dt)

C4_EmptyInterval ==
    /\ Len(times) = 1
    /\ derivCalls = 0
    /\ times = <<t0>>
    /\ states = <<y0>>

\* C4 as stated: with dt > 0 solve always terminates and records exactly
\* ceil((t_end - t0)/dt) + 1 entries when t_end > t0, and exactly one entry
\* (t0, y0), without calling derivs, when t0 >= t_end.
C4_Original ==
    pc = "done" /\ FLt(F0, integrator.dt) =>
        IF FLt(t0, t_end)
        THEN IsCeil(Len(times) - 1, StepQuotient)
        ELSE C4_EmptyInterval

\* C4 amended: with dt > 0, as long as no addition t + dt is rounded, the
\* loop of solve never runs more than ceil((t_end - t0)/dt) iterations (so it
\* terminates) and the result has exactly ceil((t_end - t0)/dt) + 1 entries
\* when t_end > t0; when t0 >= t_end the result is the one entry (t0, y0) and
\* derivs is never called.  (With rounded additions the count can be larger
\* and the loop need not end.)
C4_StepCount ==
    Started /\ FLt(F0, integrator.dt) =>
        IF FLt(t0, t_end)
        THEN AllExact =>
                /\ Len(times) >= 2 => FLt(FInt(Len(times) - 2), StepQuotient)
                /\ pc = "done" => IsCeil(Len(times) - 1, StepQuotient)
        ELSE C4_EmptyInterval

\* a run over a non-empty interval has returned after unrounded additions
C4_Witness ==
    /\ pc = "done"
    /\ FLt(F0, integrator.dt)
    /\ FLt(t0, t_end)
    /\ AllExact
    /\ Len(times) >= 3

\* C5 as stated: a zero or negative step size is rejected by the constructors,
\* so no constructed integrator or model has dt <= 0.
C5_Original == pc # "new" => FLt(F0, integrator.dt)

\* C6 as stated: a derivative of the wrong length makes solve fail, so every
\* recorded state has the length of the initial state.
C6_Original == Started => \A k \in 1..Len(states) : Len(states[k]) = Len(y0)

IsLV == model.kind = "LotkaVolterraCompetitor"

\* C7 as stated: with prey0, pred0, comp0 positive and comp_rate == 0 the
\* competitor component is exactly 0 at every recorded step.
C7_Original ==
    Started /\ IsLV /\ FLt(F0, model.prey0) /\ FLt(F0, model.pred0)
            /\ FLt(F0, model.comp0) /\ model.comp_rate = F0
        => \A k \in 1..Len(states) : states[k][3] = F0

\* C7 amended: with prey0 and pred0 positive and comp0 == 0 (whatever
\* comp_rate is, 0 included) the competitor component is exactly 0 at every
\* recorded step.
C7_NoGrowthFromZero ==
    Started /\ IsLV /\ FLt(F0, model.prey0) /\ FLt(F0, model.pred0) /\ model.comp0 = F0
        => \A k \in 1..Len(states) : states[k][3] = F0

\* a run of the model with comp0 == 0 and a positive comp_rate has returned
C7_Witness ==
    /\ pc = "done"
    /\ IsLV
    /\ model.comp0 = F0
    /\ FLt(F0, model.comp_rate)
    /\ Len(states) >= 3

IsZombie == model.kind = "ZombieModel"

\* C8: with z0 == 0 and r0 == 0 the zombie and the removed component are
\* exactly 0 and the survivor component equals s0 at every recorded step.
C8_NoOutbreak ==
    Started /\ IsZombie /\ model.z0 = F0 /\ model.r0 = F0
        => \A k \in 1..Len(states) : states[k] = <<model.s0, F0, F0>>

\* a run with survivors but no zombies has returned after several steps
C8_Witness ==
    /\ pc = "done"
    /\ IsZombie
    /\ model.z0 = F0
    /\ model.r0 = F0
    /\ FLt(F0, model.s0)
    /\ Len(states) >= 3

IsSIR == model.kind = "SIRModel"

Sum3(v) == FAdd(FAdd(Item(v, 1), Item(v, 2)), Item(v, 3))

\* the rounding tolerance of the conservation law: N * 2^-40
SumTolerance == FMul(model.N, FRound(1, <<1>>, -40))

\* C9: at every recorded step S + I + R equals the total N = s0 + i0 + r0
\* computed at construction, up to rounding, because dS + dI + dR is zero
\* (up to rounding) at every state the loop reaches and N is never recomputed.
C9_Conservation ==
    Started /\ IsSIR =>
        /\ model.N = FAdd(FAdd(model.s0, model.i0), model.r0)
        /\ \A k \in 1..Len(states) :
              FLe(FAbs(FSub(Sum3(states[k]), model.N)), SumTolerance)
        /\ model.N # F0 =>
              FLe(FAbs(Sum3(SIRDerivatives(model, y, t))), SumTolerance)

\* an epidemic has been simulated for several steps and the infected count moved
C9_Witness ==
    /\ pc = "done"
    /\ IsSIR
    /\ Len(states) >= 3
    /\ states[3][2] # states[1][2]
    /\ states[3][3] # states[1][3]

\* C10: solve and simulate change nothing but their result: the caller's
\* list y0, the integrator's dt and the model's fields are the same after a
\* call as before, and a call returns what the first call with the same
\* arguments on the freshly constructed object returned.
C10_Frame ==
    [][ /\ (pc # "new" => integrator' = integrator /\ model' = model)
        /\ (pc = "loop" => y0' = y0)
        /\ (pc' = "done" /\ first # NoCall /\ first.args = <<derivs, y0, t0, t_end>>'
              => <<times, states>>' = first.result) ]_vars

\* a later call with the arguments of the first call has returned after stepping
C10_Witness == pc = "done" /\ first.repeated /\ Len(times) >= 3

====
